---- MODULE Spec2Model ----
(***************************************************************************)
(* Model of StableDiffusion (src/source/stable_diffusion.py): the          *)
(* score-distillation step train_step, the guided sampler produce_latents, *)
(* the codec adapters and the prompt-to-image wrappers.                    *)
(*                                                                         *)
(* Tensors are symbolic: a tensor is its shape, where it came from (src)   *)
(* and the sequence of scheduler timesteps applied to it (steps).  The     *)
(* pretrained collaborators (unet, vae, scheduler.step) are uninterpreted: *)
(* each evaluation is counted and logged, never computed.                  *)
(* One call runs at a time (pc = "idle" between calls); the scheduler      *)
(* object is the only state a call leaves behind.                          *)
(***************************************************************************)
EXTENDS Integers, Sequences, FiniteSets

\* ---------------------------------------------------------------- bounds
\* Largest number of prompts P of a call (embedding rows go up to 2 * MaxPrompts).
MaxPrompts == 2
\* Largest in-range num_inference_steps the model enumerates.
MaxSteps == 3

\* ------------------------------------------------------ program constants
\* self.num_train_timesteps (line 32)
num_train_timesteps == 1000
\* upper limit of num_inference_steps in the assert of line 133
max_inference_steps == 1000
\* the resolution train_step resamples to, and embeddings_to_imgs asserts
image_size == 512
\* height // 8 and width // 8 (line 131)
vae_downsample == 8
\* latent channel count written in the shape asserts (lines 152, 165, 200)
latent_channels == 4
\* latent height and width written in the shape asserts (lines 152-159, 243)
latent_size == 64
\* pixel channel count (lines 176, 192)
pixel_channels == 3
\* self.tokenizer.model_max_length, as asserted at line 85
model_max_length == 77
\* embedding width, as asserted at line 85
embedding_width == 768

\* self.min_step = int(self.num_train_timesteps * 0.02): int() truncates the
\* float product 20.0
min_step == (num_train_timesteps * 2) \div 100

\* self.max_step = int(self.num_train_timesteps * 0.98): int() truncates the
\* float product 980.0
max_step == (num_train_timesteps * 98) \div 100

\* An off-by-one range check: t = num_train_timesteps accepted.
valid_timestep_inclusive(t) == 0 <= t /\ t <= num_train_timesteps

\* assert 0<=t<self.num_train_timesteps (line 99)
valid_timestep(t) == 0 <= t /\ t < num_train_timesteps

\* A range check that refuses a step count of 0.
valid_num_inference_steps_positive(n) == 1 <= n /\ n <= max_inference_steps

\* assert 0 <= num_inference_steps <= 1000 (line 133)
valid_num_inference_steps(n) == 0 <= n /\ n <= max_inference_steps

\* --------------------------------------------------------------- tensors
NoTensor == [shape |-> <<>>, src |-> "none", steps |-> <<>>]

Tensor(shape, src) == [shape |-> shape, src |-> src, steps |-> <<>>]

\* ---------------------------------------------------------------- inputs
GuidanceScales == {1, 100}

\* text_embeddings row counts a caller may pass: even (2P) and odd ones
EmbeddingRows == 2 .. (2 * MaxPrompts)

\* height and width arguments
Sizes == {256, image_size}

\* num_inference_steps arguments: below range, in range, above range
StepChoices == {-1} \cup (0 .. MaxSteps) \cup {max_inference_steps + 1}

\* latents argument of produce_latents: None, or a caller's latent of some batch size
InitialLatents ==
    {NoTensor} \cup
    { Tensor(<<b, latent_channels, latent_size, latent_size>>, "given") : b \in 1 .. MaxPrompts }

\* t argument of train_step: None, or a Python int (the annotation Optional[int])
SuppliedTimesteps == {-1, 0, 500, num_train_timesteps - 1, num_train_timesteps}

\* pred_rgb argument of train_step: a batch of one 64x64 image with 3 or 4
\* channels, or an unbatched (rank-3) image
PixelShapes == { <<1, 3, 64, 64>>, <<1, 4, 64, 64>>, <<3, 64, 64>> }

NoArgs ==
    [ rows |-> 0, height |-> 0, width |-> 0, steps |-> 0, gs |-> 0,
      latents |-> NoTensor, t_given |-> FALSE, t |-> 0, pixels |-> <<>> ]

\* ----------------------------------------------------------------- state
VARIABLES
    pc,               \* position of the running call, "idle" between calls
    op,               \* the method the caller invoked
    args,             \* its arguments
    t,                \* train_step: the timestep in use
    t_kind,           \* "none", "int" (a Python int) or "tensor" (a torch tensor)
    latents,          \* the local variable latents
    noise_pred,       \* the local variable noise_pred
    idx,              \* produce_latents: position in scheduler.timesteps (1-based)
    scheduler,        \* self.scheduler: the shared scheduler object
    scheduler_at_call,\* history: self.scheduler as the running call found it
    result,           \* what the call returned or raised
    noise_draws,      \* torch.randn / randn_like calls of the running call
    unet_evals,       \* self.unet evaluations of the running call
    sched_steps,      \* self.scheduler.step calls of the running call
    backward_calls,   \* latents.backward calls of the running call
    log               \* history: the unet and scheduler.step calls, in order

vars ==
    << pc, op, args, t, t_kind, latents, noise_pred, idx, scheduler,
       scheduler_at_call, result, noise_draws, unet_evals, sched_steps,
       backward_calls, log >>

NoResult == [status |-> "none", err |-> "", line |-> 0, value |-> NoTensor]

Ok(value) == [status |-> "ok", err |-> "", line |-> 0, value |-> value]

\* An exception leaving the call.  err is the kind of failure: "InvalidInput"
\* (an assert on an argument's value), "ShapeMismatch" (an assert on a shape),
\* or the Python exception's name.
Raise(err, line) == [status |-> "error", err |-> err, line |-> line, value |-> NoTensor]

\* PNDMScheduler(...) as constructed at line 44: no inference schedule set yet
NewScheduler == [configured |-> FALSE, num_inference_steps |-> 0, timesteps |-> <<>>]

\* The scheduler's subsampling rule: num_inference_steps timesteps, decreasing
\* from near num_train_timesteps to 0.
SchedulerTimesteps(n) ==
    [ k \in 1 .. n |-> (n - k) * (num_train_timesteps \div n) ]

\* self.scheduler.set_timesteps(num_inference_steps) (line 135)
set_timesteps(n) ==
    [configured |-> TRUE, num_inference_steps |-> n, timesteps |-> SchedulerTimesteps(n)]

Init ==
    /\ pc = "idle"
    /\ op = "none"
    /\ args = NoArgs
    /\ t = 0
    /\ t_kind = "none"
    /\ latents = NoTensor
    /\ noise_pred = NoTensor
    /\ idx = 0
    /\ scheduler = NewScheduler
    /\ scheduler_at_call = NewScheduler
    /\ result = NoResult
    /\ noise_draws = 0
    /\ unet_evals = 0
    /\ sched_steps = 0
    /\ backward_calls = 0
    /\ log = <<>>

\* A randint whose upper limit is inclusive.
randint_inclusive(low, high) == low .. high

\* torch.randint(low, high): an integer in [low, high)
randint(low, high) == low .. (high - 1)

\* The locals of a call as it starts.
Enter(name, a, at, r) ==
    /\ pc' = at
    /\ op' = name
    /\ args' = a
    /\ t' = 0
    /\ t_kind' = "none"
    /\ latents' = NoTensor
    /\ noise_pred' = NoTensor
    /\ idx' = 0
    /\ scheduler_at_call' = scheduler
    /\ result' = r
    /\ noise_draws' = 0
    /\ unet_evals' = 0
    /\ sched_steps' = 0
    /\ backward_calls' = 0
    /\ log' = <<>>
    /\ UNCHANGED scheduler

\* The call ends: it returned or raised r.
Leave(r) ==
    /\ pc' = "done"
    /\ result' = r

\* ------------------------------------------------------------ train_step
\* train_step(text_embeddings, pred_rgb, guidance_scale, t) is called (line 89).
\* The embeddings have the two rows that match pred_rgb's batch of one.
train_step_call ==
    /\ pc = "idle"
    /\ \E px \in PixelShapes, g \in GuidanceScales, given \in BOOLEAN,
          ts \in SuppliedTimesteps :
           /\ given \/ ts = 0
           /\ Enter("train_step",
                    [NoArgs EXCEPT !.rows = 2, !.gs = g, !.pixels = px,
                                   !.t_given = given, !.t = ts],
                    "ts_interpolate", NoResult)

\* pred_rgb_512 = F.interpolate(pred_rgb, (512, 512), mode='bilinear') (line 94):
\* a 2-D output size needs a rank-4 input
train_step_interpolate ==
    /\ pc = "ts_interpolate"
    /\ IF Len(args.pixels) = 4
       THEN /\ pc' = "ts_timestep"
            /\ latents' = Tensor(<<args.pixels[1], args.pixels[2], image_size, image_size>>,
                                 "pred_rgb_512")
            /\ UNCHANGED result
       ELSE /\ Leave(Raise("ValueError", 94))
            /\ UNCHANGED latents
    /\ UNCHANGED << op, args, t, t_kind, noise_pred, idx, scheduler, scheduler_at_call,
                    noise_draws, unet_evals, sched_steps, backward_calls, log >>

\* if t is None: t = torch.randint(self.min_step, self.max_step + 1, [1]) (lines 96-97),
\* then assert 0<=t<self.num_train_timesteps (line 99)
train_step_timestep ==
    /\ pc = "ts_timestep"
    /\ \E drawn \in randint(min_step, max_step + 1) :
        LET tv == IF args.t_given THEN args.t ELSE drawn
            tk == IF args.t_given THEN "int" ELSE "tensor"
        IN  /\ args.t_given => drawn = min_step
            /\ t' = tv
            /\ t_kind' = tk
            /\ IF valid_timestep(tv)
               THEN pc' = "ts_encode" /\ UNCHANGED result
               ELSE Leave(Raise("InvalidInput", 99))
    /\ UNCHANGED << op, args, latents, noise_pred, idx, scheduler, scheduler_at_call,
                    noise_draws, unet_evals, sched_steps, backward_calls, log >>

\* latents = self.encode_imgs(pred_rgb_512) (line 102; encode_imgs, lines 191-202)
train_step_encode ==
    /\ pc = "ts_encode"
    /\ IF Len(latents.shape) = 4 /\ latents.shape[2] = pixel_channels
       THEN /\ pc' = "ts_add_noise"
            /\ latents' = Tensor(<<latents.shape[1], latent_channels,
                                   latents.shape[3] \div vae_downsample,
                                   latents.shape[4] \div vae_downsample>>, "encoded")
            /\ UNCHANGED result
       ELSE /\ Leave(Raise("ShapeMismatch", 192))
            /\ UNCHANGED latents
    /\ UNCHANGED << op, args, t, t_kind, noise_pred, idx, scheduler, scheduler_at_call,
                    noise_draws, unet_evals, sched_steps, backward_calls, log >>

\* noise = torch.randn_like(latents);
\* latents_noisy = self.scheduler.add_noise(latents, noise, t.cpu()) (lines 107-108):
\* a Python int has no attribute cpu
train_step_add_noise ==
    /\ pc = "ts_add_noise"
    /\ noise_draws' = noise_draws + 1
    /\ IF t_kind = "tensor"
       THEN pc' = "ts_unet" /\ UNCHANGED result
       ELSE Leave(Raise("AttributeError", 108))
    /\ UNCHANGED << op, args, t, t_kind, latents, noise_pred, idx, scheduler,
                    scheduler_at_call, unet_evals, sched_steps, backward_calls, log >>

\* latent_model_input = torch.cat([latents_noisy] * 2);
\* noise_pred = self.unet(latent_model_input, t, ...) (lines 110-111)
train_step_unet ==
    /\ pc = "ts_unet"
    /\ unet_evals' = unet_evals + 1
    /\ noise_pred' = Tensor(<<2 * latents.shape[1], latents.shape[2],
                              latents.shape[3], latents.shape[4]>>, "unet")
    /\ pc' = "ts_backward"
    /\ UNCHANGED << op, args, t, t_kind, latents, idx, scheduler, scheduler_at_call,
                    result, noise_draws, sched_steps, backward_calls, log >>

\* guidance, w = 1 - self.alphas[t], grad = w * (noise_pred - noise),
\* latents.backward(gradient=grad, retain_graph=True); return 0 (lines 114-123)
train_step_backward ==
    /\ pc = "ts_backward"
    /\ noise_pred' = Tensor(<<noise_pred.shape[1] \div 2, noise_pred.shape[2],
                              noise_pred.shape[3], noise_pred.shape[4]>>, "guided")
    /\ backward_calls' = backward_calls + 1
    /\ Leave(Ok(NoTensor))
    /\ UNCHANGED << op, args, t, t_kind, latents, idx, scheduler, scheduler_at_call,
                    noise_draws, unet_evals, sched_steps, log >>

\* ------------------------------------------------------- produce_latents
\* num_prompts = len(text_embeddings)//2 (line 128)
num_prompts == args.rows \div 2

\* An enumerate that skips every other entry.
next_index_skipping(i) == i + 2

\* for i, t in enumerate(self.scheduler.timesteps) (line 138): the next entry
next_index(i) == i + 1

\* produce_latents(text_embeddings, height, width, num_inference_steps,
\* guidance_scale, latents) is called (line 125)
produce_latents_call ==
    /\ pc = "idle"
    /\ \E r \in EmbeddingRows, h \in Sizes, w \in Sizes, n \in StepChoices,
          g \in GuidanceScales, l \in InitialLatents :
           Enter("produce_latents",
                 [NoArgs EXCEPT !.rows = r, !.height = h, !.width = w, !.steps = n,
                                !.gs = g, !.latents = l],
                 "pl_embeddings", NoResult)

\* embeddings_to_imgs(text_embeddings, height, width, num_inference_steps,
\* guidance_scale, latents) is called (line 225); its asserts of lines 232-234
\* are those of produce_latents (lines 126-128), which it calls at line 237
embeddings_to_imgs_call ==
    /\ pc = "idle"
    /\ \E r \in EmbeddingRows, h \in Sizes, w \in Sizes, n \in StepChoices,
          g \in GuidanceScales, l \in InitialLatents :
           Enter("embeddings_to_imgs",
                 [NoArgs EXCEPT !.rows = r, !.height = h, !.width = w, !.steps = n,
                                !.gs = g, !.latents = l],
                 "pl_embeddings", NoResult)

\* prompts_to_imgs(prompts, ...) is called (line 256): get_text_embeddings gives
\* 2 * len(prompts) rows (lines 267-268), then embeddings_to_imgs (line 270)
prompts_to_imgs_call ==
    /\ pc = "idle"
    /\ \E p \in 1 .. MaxPrompts, h \in Sizes, w \in Sizes, n \in StepChoices,
          g \in GuidanceScales, l \in InitialLatents :
           Enter("prompts_to_imgs",
                 [NoArgs EXCEPT !.rows = 2 * p, !.height = h, !.width = w, !.steps = n,
                                !.gs = g, !.latents = l],
                 "pl_embeddings", NoResult)

\* prompt_to_img(prompt, ...) is called (line 272): prompts_to_imgs([prompt], ...)[0]
prompt_to_img_call ==
    /\ pc = "idle"
    /\ \E h \in Sizes, w \in Sizes, n \in StepChoices, g \in GuidanceScales,
          l \in InitialLatents :
           Enter("prompt_to_img",
                 [NoArgs EXCEPT !.rows = 2, !.height = h, !.width = w, !.steps = n,
                                !.gs = g, !.latents = l],
                 "pl_embeddings", NoResult)

\* assert not len(text_embeddings)%2 (lines 126-128, and 232-234)
produce_latents_embeddings ==
    /\ pc = "pl_embeddings"
    /\ IF args.rows % 2 = 0
       THEN pc' = "pl_initial" /\ UNCHANGED result
       ELSE Leave(Raise("ShapeMismatch", IF op = "produce_latents" THEN 127 ELSE 233))
    /\ UNCHANGED << op, args, t, t_kind, latents, noise_pred, idx, scheduler,
                    scheduler_at_call, noise_draws, unet_evals, sched_steps,
                    backward_calls, log >>

\* if latents is None: latents = torch.randn((num_prompts, self.unet.in_channels,
\* height // 8, width // 8)) (lines 130-131)
produce_latents_initial ==
    /\ pc = "pl_initial"
    /\ IF args.latents = NoTensor
       THEN /\ latents' = Tensor(<<num_prompts, latent_channels,
                                   args.height \div vae_downsample,
                                   args.width \div vae_downsample>>, "randn")
            /\ noise_draws' = noise_draws + 1
       ELSE /\ latents' = args.latents
            /\ UNCHANGED noise_draws
    /\ pc' = "pl_set_timesteps"
    /\ UNCHANGED << op, args, t, t_kind, noise_pred, idx, scheduler, scheduler_at_call,
                    result, unet_evals, sched_steps, backward_calls, log >>

\* assert 0 <= num_inference_steps <= 1000 (line 133);
\* self.scheduler.set_timesteps(num_inference_steps) (line 135)
produce_latents_set_timesteps ==
    /\ pc = "pl_set_timesteps"
    /\ IF valid_num_inference_steps(args.steps)
       THEN /\ scheduler' = set_timesteps(args.steps)
            /\ idx' = 1
            /\ pc' = "pl_loop"
            /\ UNCHANGED result
       ELSE /\ Leave(Raise("InvalidInput", 133))
            /\ UNCHANGED << scheduler, idx >>
    /\ UNCHANGED << op, args, t, t_kind, latents, noise_pred, scheduler_at_call,
                    noise_draws, unet_evals, sched_steps, backward_calls, log >>

\* One pass of the loop body up to the denoiser (lines 138-149): the asserts on
\* t (line 139), latent_model_input = torch.cat([latents] * 2), the unet, and
\* assert len(latent_model_input)==len(text_embeddings)==len(noise_pred)
produce_latents_unet ==
    /\ pc = "pl_loop"
    /\ idx <= Len(scheduler.timesteps)
    /\ LET ts == scheduler.timesteps[idx]
       IN  IF ~(0 <= ts /\ ts <= num_train_timesteps - 1)
           THEN /\ Leave(Raise("InvalidInput", 139))
                /\ UNCHANGED << t, noise_pred, unet_evals, log >>
           ELSE /\ t' = ts
                /\ unet_evals' = unet_evals + 1
                /\ log' = Append(log, [ev |-> "unet", t |-> ts, input |-> latents,
                                       output |-> NoTensor])
                /\ noise_pred' = Tensor(<<2 * latents.shape[1], latents.shape[2],
                                          latents.shape[3], latents.shape[4]>>, "unet")
                /\ IF 2 * latents.shape[1] = args.rows
                   THEN pc' = "pl_guidance" /\ UNCHANGED result
                   ELSE Leave(Raise("ShapeMismatch", 149))
    /\ UNCHANGED << op, args, t_kind, latents, idx, scheduler, scheduler_at_call,
                    noise_draws, sched_steps, backward_calls >>

\* assert noise_pred.shape == (2*num_prompts, 4, 64, 64); chunk(2) and guidance;
\* assert noise_pred.shape == (1*num_prompts, 4, 64, 64) (lines 152-155)
produce_latents_guidance ==
    /\ pc = "pl_guidance"
    /\ IF noise_pred.shape = <<2 * num_prompts, latent_channels, latent_size, latent_size>>
       THEN /\ noise_pred' = Tensor(<<noise_pred.shape[1] \div 2, noise_pred.shape[2],
                                      noise_pred.shape[3], noise_pred.shape[4]>>, "guided")
            /\ pc' = "pl_step"
            /\ UNCHANGED result
       ELSE /\ Leave(Raise("ShapeMismatch", 152))
            /\ UNCHANGED noise_pred
    /\ UNCHANGED << op, args, t, t_kind, latents, idx, scheduler, scheduler_at_call,
                    noise_draws, unet_evals, sched_steps, backward_calls, log >>

\* latents = self.scheduler.step(noise_pred, t, latents)['prev_sample'];
\* assert latents.shape==noise_pred.shape == (num_prompts, 4, 64, 64) (lines 158-159)
produce_latents_step ==
    /\ pc = "pl_step"
    /\ LET prev == [latents EXCEPT !.src = "step", !.steps = Append(latents.steps, t)]
       IN  /\ latents' = prev
           /\ sched_steps' = sched_steps + 1
           /\ log' = Append(log, [ev |-> "step", t |-> t, input |-> latents,
                                  output |-> prev])
           /\ IF prev.shape = noise_pred.shape
                 /\ prev.shape = <<num_prompts, latent_channels, latent_size, latent_size>>
              THEN /\ idx' = next_index(idx)
                   /\ pc' = "pl_loop"
                   /\ UNCHANGED result
              ELSE /\ Leave(Raise("ShapeMismatch", 159))
                   /\ UNCHANGED idx
    /\ UNCHANGED << op, args, t, t_kind, noise_pred, scheduler, scheduler_at_call,
                    noise_draws, unet_evals, backward_calls >>

\* return latents (line 161), once the timesteps are exhausted: to the caller,
\* or to embeddings_to_imgs (line 237)
produce_latents_return ==
    /\ pc = "pl_loop"
    /\ idx > Len(scheduler.timesteps)
    /\ IF op = "produce_latents"
       THEN Leave(Ok(latents))
       ELSE pc' = "e2i_decode" /\ UNCHANGED result
    /\ UNCHANGED << op, args, t, t_kind, latents, noise_pred, idx, scheduler,
                    scheduler_at_call, noise_draws, unet_evals, sched_steps,
                    backward_calls, log >>

\* ---------------------------------------------------- embeddings_to_imgs
\* assert latents.shape==(num_prompts, 4, 64, 64) (line 243), then
\* `with torch.no_grad:` (line 246): torch.no_grad is the class, not an instance,
\* and a class is no context manager; Python raises AttributeError (__enter__)
\* up to 3.10 and TypeError from 3.11.  Lines 247-254 are never reached.
embeddings_to_imgs_decode ==
    /\ pc = "e2i_decode"
    /\ IF latents.shape = <<num_prompts, latent_channels, latent_size, latent_size>>
       THEN \E e \in {"AttributeError", "TypeError"} : Leave(Raise(e, 246))
       ELSE Leave(Raise("ShapeMismatch", 243))
    /\ UNCHANGED << op, args, t, t_kind, latents, noise_pred, idx, scheduler,
                    scheduler_at_call, noise_draws, unet_evals, sched_steps,
                    backward_calls, log >>

\* ------------------------------------------- embedding provider and codec
\* get_text_embeddings(prompts) (lines 61-87): 2 * len(prompts) rows of (77, 768)
get_text_embeddings ==
    /\ pc = "idle"
    /\ \E p \in 1 .. MaxPrompts :
           Enter("get_text_embeddings", [NoArgs EXCEPT !.rows = 2 * p], "done",
                 Ok(Tensor(<<2 * p, model_max_length, embedding_width>>, "text_encoder")))

\* decode_latents(latents) (lines 163-178)
decode_latents ==
    /\ pc = "idle"
    /\ \E l \in InitialLatents \cup {Tensor(<<latent_channels, latent_size, latent_size>>, "given")} :
           /\ l # NoTensor
           /\ Enter("decode_latents", [NoArgs EXCEPT !.latents = l], "done",
                    IF Len(l.shape) = 4 /\ l.shape[2] = latent_channels
                    THEN Ok(Tensor(<<l.shape[1], pixel_channels,
                                     l.shape[3] * vae_downsample,
                                     l.shape[4] * vae_downsample>>, "vae.decode"))
                    ELSE Raise("ShapeMismatch", 165))

\* encode_imgs(imgs) (lines 191-202)
encode_imgs ==
    /\ pc = "idle"
    /\ \E px \in PixelShapes :
           Enter("encode_imgs", [NoArgs EXCEPT !.pixels = px], "done",
                 IF Len(px) = 4 /\ px[2] = pixel_channels
                 THEN Ok(Tensor(<<px[1], latent_channels, px[3] \div vae_downsample,
                                  px[4] \div vae_downsample>>, "vae.encode"))
                 ELSE Raise("ShapeMismatch", 192))

\* The caller takes the result; the next call may start.
Return ==
    /\ pc = "done"
    /\ pc' = "idle"
    /\ op' = "none"
    /\ args' = NoArgs
    /\ t' = 0
    /\ t_kind' = "none"
    /\ latents' = NoTensor
    /\ noise_pred' = NoTensor
    /\ idx' = 0
    /\ scheduler_at_call' = scheduler
    /\ result' = NoResult
    /\ noise_draws' = 0
    /\ unet_evals' = 0
    /\ sched_steps' = 0
    /\ backward_calls' = 0
    /\ log' = <<>>
    /\ UNCHANGED scheduler
Next ==
    \/ train_step_call
    \/ train_step_interpolate
    \/ train_step_timestep
    \/ train_step_encode
    \/ train_step_add_noise
    \/ train_step_unet
    \/ train_step_backward
    \/ produce_latents_call
    \/ embeddings_to_imgs_call
    \/ prompts_to_imgs_call
    \/ prompt_to_img_call
    \/ produce_latents_embeddings
    \/ produce_latents_initial
    \/ produce_latents_set_timesteps
    \/ produce_latents_unet
    \/ produce_latents_guidance
    \/ produce_latents_step
    \/ produce_latents_return
    \/ embeddings_to_imgs_decode
    \/ get_text_embeddings
    \/ decode_latents
    \/ encode_imgs
    \/ Return

Spec == Init /\ [][Next]_vars

\* ---------------------------------------------------------------- claims
SamplerOps == {"produce_latents", "embeddings_to_imgs", "prompts_to_imgs", "prompt_to_img"}

ImageOps == {"embeddings_to_imgs", "prompts_to_imgs", "prompt_to_img"}

\* C1: train_step called with a supplied timestep outside [0, num_train_timesteps)
\* never gets past the range check: no noise is drawn, the denoiser is not
\* evaluated and backward is never called, at any point of the call; the call
\* ends in an error, which for a rank-4 pixel tensor is InvalidInput.
C1_OutOfRangeTimestepRejected ==
    (op = "train_step" /\ args.t_given /\ ~(0 <= args.t /\ args.t < 1000)) =>
        /\ pc \in {"ts_interpolate", "ts_timestep", "done"}
        /\ noise_draws = 0
        /\ unet_evals = 0
        /\ backward_calls = 0
        /\ pc = "done" =>
            /\ result.status = "error"
            /\ Len(args.pixels) = 4 => (result.err = "InvalidInput" /\ result.line = 99)

\* C1 witness: a call with t = num_train_timesteps has ended in InvalidInput.
C1_Witness ==
    /\ pc = "done"
    /\ op = "train_step"
    /\ args.t_given
    /\ args.t = 1000
    /\ result = Raise("InvalidInput", 99)

\* C2: train_step called with a supplied integer timestep inside
\* [0, num_train_timesteps) and a rank-4, 3-channel pixel tensor ends without
\* error, having evaluated the denoiser once and called backward once.
C2_SuppliedTimestepCompletes ==
    ( /\ pc = "done"
      /\ op = "train_step"
      /\ args.t_given
      /\ 0 <= args.t /\ args.t < 1000
      /\ Len(args.pixels) = 4
      /\ args.pixels[2] = 3 ) =>
        /\ result.status = "ok"
        /\ unet_evals = 1
        /\ backward_calls = 1

\* C3: embeddings_to_imgs, prompts_to_imgs and prompt_to_img, called with an
\* even number of embedding rows, height = width = 512, a step count in
\* [0, 1000] and no initial latent or one of batch size P, end without error.
C3_EndToEndCompletes ==
    ( /\ pc = "done"
      /\ op \in ImageOps
      /\ args.rows % 2 = 0
      /\ args.height = 512 /\ args.width = 512
      /\ 0 <= args.steps /\ args.steps <= 1000
      /\ (args.latents = NoTensor \/ args.latents.shape[1] = args.rows \div 2) ) =>
        result.status = "ok"

\* C4: every latent produce_latents returns has batch size P = rows / 2, and a
\* call (with a step count in range) whose supplied initial latent has another
\* batch size returns nothing and fails with ShapeMismatch.
C4_ReturnedBatchIsP ==
    ( /\ pc = "done"
      /\ op = "produce_latents"
      /\ args.rows % 2 = 0
      /\ 0 <= args.steps /\ args.steps <= 1000 ) =>
        /\ result.status = "ok" => result.value.shape[1] = args.rows \div 2
        /\ (args.latents # NoTensor /\ args.latents.shape[1] # args.rows \div 2) =>
               (result.status = "error" /\ result.err = "ShapeMismatch")

\* C5: produce_latents called with num_inference_steps = 0 and a supplied
\* initial latent returns that latent unchanged, with no denoiser evaluation
\* and no scheduler step, for any guidance scale.
C5_ZeroStepsReturnsInitialLatent ==
    ( /\ pc = "done"
      /\ op = "produce_latents"
      /\ args.rows % 2 = 0
      /\ args.steps = 0
      /\ args.latents # NoTensor ) =>
        /\ result = Ok(args.latents)
        /\ unet_evals = 0
        /\ sched_steps = 0
        /\ log = <<>>

\* C5 witness: such a call, at guidance scale 100, has returned its latent.
C5_Witness ==
    /\ pc = "done"
    /\ op = "produce_latents"
    /\ args.steps = 0
    /\ args.gs = 100
    /\ args.latents # NoTensor
    /\ result.status = "ok"
    /\ result.value = args.latents

\* C6: produce_latents called with num_inference_steps outside [0, 1000] fails
\* with InvalidInput before any work: no starting latent drawn, the scheduler
\* not reconfigured, no denoiser evaluation, no scheduler step, nothing returned.
C6_StepCountCheckedFirst ==
    ( /\ pc = "done"
      /\ op = "produce_latents"
      /\ args.rows % 2 = 0
      /\ ~(0 <= args.steps /\ args.steps <= 1000) ) =>
        /\ result = Raise("InvalidInput", 133)
        /\ noise_draws = 0
        /\ scheduler = scheduler_at_call
        /\ unet_evals = 0
        /\ sched_steps = 0

\* C7: every call leaves the shared scheduler object as it found it.
C7_SharedStateUntouched ==
    pc = "done" => scheduler = scheduler_at_call

\* C8: produce_latents called without an initial latent, for any height and
\* width, succeeds and returns a latent of shape (P, C, height/8, width/8).
C8_AnySizeSucceeds ==
    ( /\ pc = "done"
      /\ op = "produce_latents"
      /\ args.rows % 2 = 0
      /\ 0 <= args.steps /\ args.steps <= 1000
      /\ args.latents = NoTensor ) =>
        /\ result.status = "ok"
        /\ result.value.shape = <<args.rows \div 2, 4, args.height \div 8, args.width \div 8>>

\* C9: min_step = 20 and max_step = 980; a timestep train_step draws itself lies
\* in [20, 980], passes the range check 0 <= t < 1000, and is a tensor, so the
\* call does not fail on it: with a rank-4, 3-channel pixel tensor it ends
\* without error.
C9_DrawnTimestepInBand ==
    /\ min_step = 20
    /\ max_step = 980
    /\ (op = "train_step" /\ ~args.t_given /\ t_kind # "none") =>
        /\ t \in 20 .. 980
        /\ 0 <= t /\ t < 1000
        /\ ~(result.status = "error" /\ result.err \in {"InvalidInput", "AttributeError"})
        /\ (pc = "done" /\ Len(args.pixels) = 4 /\ args.pixels[2] = 3) =>
               result.status = "ok"

\* C9 witness: a call that drew the upper endpoint 980 has run to completion.
C9_Witness ==
    /\ pc = "done"
    /\ op = "train_step"
    /\ ~args.t_given
    /\ t = 980
    /\ result.status = "ok"
    /\ backward_calls = 1

\* C10: in produce_latents the calls of the denoiser and of scheduler.step
\* alternate, one pair per entry of the scheduler's timesteps, in schedule
\* order; each pair reads the latent the previous pair's step produced (the
\* first reads the starting latent); and the call returns the output of the
\* last step, having gone through every entry.
C10_SequentialInScheduleOrder ==
    op \in SamplerOps =>
        /\ \A j \in 1 .. Len(log) :
            LET k == (j + 1) \div 2
            IN  /\ k <= Len(scheduler.timesteps)
                /\ log[j].t = scheduler.timesteps[k]
                /\ log[j].ev = (IF j % 2 = 1 THEN "unet" ELSE "step")
                /\ IF k = 1
                   THEN log[j].input.steps = <<>> /\ log[j].input.src \in {"given", "randn"}
                   ELSE log[j].input = log[2 * (k - 1)].output
                /\ j % 2 = 0 => log[j].output.steps = Append(log[j].input.steps, log[j].t)
        /\ unet_evals = (Len(log) + 1) \div 2
        /\ sched_steps = Len(log) \div 2
        /\ (pc = "done" /\ op = "produce_latents" /\ result.status = "ok") =>
            /\ Len(scheduler.timesteps) = args.steps
            /\ Len(log) = 2 * args.steps
            /\ result.value.steps = scheduler.timesteps
            /\ Len(log) > 0 => result.value = log[Len(log)].output

\* C10 witness: a call of at least two steps has returned.
C10_Witness ==
    /\ pc = "done"
    /\ op = "produce_latents"
    /\ result.status = "ok"
    /\ Len(log) >= 4
    /\ result.value = log[Len(log)].output

====
